---- MODULE Spec2Model ----
(***************************************************************************)
(* The real-time event hub of backend/src/server.js: the socket.io         *)
(* connection handler, its presence map, and the asynchronous handlers     *)
(* that read and write messages through the Message model.                 *)
(*                                                                         *)
(* Every `await` of a handler is a point where the event loop may run any  *)
(* other handler, so each asynchronous handler is a task that advances     *)
(* one store call (or one continuation) at a time.                         *)
(***************************************************************************)
EXTENDS Integers, Sequences, FiniteSets, TLC

\* ---- bounds of the model ------------------------------------------------
MaxEvents == 2      \* inbound payload events (send_message, react, typing, delivered, read)
MaxMsgs == 2        \* messages the store may hold

Conns == {"c1", "c2"}               \* socket ids
Users == {"u1", "u2"}               \* user ids
Rooms == {"general", "random"}
Emojis == {"like", "heart"}
MsgIds == 1..MaxMsgs

Absent == "absent"                  \* undefined / null / '' : every falsy value
ObjectStr == "[object Object]"      \* an object that carries neither id nor _id
NoMsg == [room |-> Absent, sender |-> Absent, text |-> Absent,
          reactions |-> <<>>, readBy |-> <<>>, v |-> 0]

VARIABLES
  status,       \* per socket: "unattached", "attached" (connected), "detached", or
                \* "crashed" for every socket once the node process has ended
  claimed,      \* per socket: the uid its handshake resolved to (Absent if none)
  rooms,        \* per socket: the rooms it joined
  onlineUsers,  \* the Map uid -> socket id, as its entries in insertion order
  store,        \* the messages collection; a message's id is its index
  tasks,        \* every invocation of an asynchronous handler, in arrival order
  outbox,       \* every emit, in order, with the sockets it is sent to
  calc          \* scratch state of the pure-function specifications

vars == <<status, claimed, rooms, onlineUsers, store, tasks, outbox, calc>>

\* ---- identities as they arrive on the wire --------------------------------
\* A payload identity is a scalar (bare) or an object with optional id / _id.
IdFields == Users \cup {Absent}
Scalar(x) == [bare |-> x, id |-> Absent, _id |-> Absent]
Object(i, u) == [bare |-> ObjectStr, id |-> i, _id |-> u]
IdInputs == {Scalar(x) : x \in IdFields} \cup {Object(i, u) : i \in IdFields, u \in IdFields}

\* socket.handshake.auth?.user : absent, or an object with optional _id / id
AuthInputs == {Scalar(Absent)} \cup {Object(i, u) : i \in IdFields, u \in IdFields}

\* a || b of JavaScript over the values of the model
Or(a, b) == IF a # Absent THEN a ELSE b

\* a handshake read through id alone: a user carrying only _id is not seen
AuthUidIdOnly(a) == IF a.bare = Absent THEN Absent ELSE a.id

\* server.js:61-62   clientUser && (clientUser._id || clientUser.id) ; uid = _id || id
AuthUid(a) == IF a.bare = Absent THEN Absent ELSE Or(a._id, a.id)

\* server.js:92      if (userId && (userId.id || userId._id)) userId = userId.id || userId._id
NormUserId(x) ==
  IF x.bare # Absent /\ Or(x.id, x._id) # Absent THEN Or(x.id, x._id) ELSE x.bare

\* the payload identities that resolve to a user id
WellFormedIds == {x \in IdInputs : NormUserId(x) \in Users}

\* server.js:72      message.sender._id || message.sender.id || message.sender
SenderId(x) == Or(x._id, Or(x.id, x.bare))

\* ---- pure parts of the handlers -------------------------------------------
\* Array.prototype.filter(r => String(r.userId) !== String(userId))
RECURSIVE Without(_, _)
Without(reactions, userId) ==
  IF reactions = <<>> THEN <<>>
  ELSE IF Head(reactions).userId = userId THEN Without(Tail(reactions), userId)
       ELSE <<Head(reactions)>> \o Without(Tail(reactions), userId)

\* Array.prototype.find(r => String(r.userId) === String(userId)) : first match
RECURSIVE Find(_, _)
Find(reactions, userId) ==
  IF reactions = <<>> THEN [userId |-> Absent, emoji |-> Absent]
  ELSE IF Head(reactions).userId = userId THEN Head(reactions)
       ELSE Find(Tail(reactions), userId)

\* the merge without its filter: an earlier reaction of the user is kept
MergeKeepsOld(reactions, userId, emoji) ==
  Append(reactions, [userId |-> userId, emoji |-> emoji])

\* the merge without its toggle: the same emoji is appended again
MergeNoToggle(reactions, userId, emoji) ==
  Append(Without(reactions, userId), [userId |-> userId, emoji |-> emoji])

\* the merge with an unshift in place of the push: the new reaction goes first
MergePrepends(reactions, userId, emoji) ==
  LET exists == Find(reactions, userId) IN
    IF exists.userId # Absent /\ exists.emoji = emoji
      THEN Without(reactions, userId)
      ELSE <<[userId |-> userId, emoji |-> emoji]>> \o Without(reactions, userId)

\* server.js:96-102  the merge block of the react handler
Merge(reactions, userId, emoji) ==
  LET exists == Find(reactions, userId) IN
    IF exists.userId # Absent /\ exists.emoji = emoji
      THEN Without(reactions, userId)
      ELSE Append(Without(reactions, userId), [userId |-> userId, emoji |-> emoji])

\* an includes test that never finds the id
IncludesNever(readBy, userId) == FALSE

\* msg.readBy.map(String).includes(String(userId))
Includes(readBy, userId) == \E i \in DOMAIN readBy : readBy[i] = userId

\* the receipt block without its includes test
MarkSeenAlways(readBy, userId) == Append(readBy, userId)

\* server.js:121-122 the receipt block: push only when not yet included
MarkSeen(readBy, userId) ==
  IF ~Includes(readBy, userId) THEN Append(readBy, userId) ELSE readBy

\* ---- the presence map (a JavaScript Map keeps insertion order) --------------
MapHas(m, uid) == \E i \in DOMAIN m : m[i].uid = uid
MapGet(m, uid) == IF MapHas(m, uid)
                    THEN m[CHOOSE i \in DOMAIN m : m[i].uid = uid].sid ELSE Absent

\* a list of entries instead of a Map: every set appends
MapSetAppends(m, uid, sid) == Append(m, [uid |-> uid, sid |-> sid])

\* Map.prototype.set : replace the value of an existing key in place, else append
MapSet(m, uid, sid) ==
  IF MapHas(m, uid)
    THEN [i \in DOMAIN m |-> IF m[i].uid = uid THEN [uid |-> uid, sid |-> sid] ELSE m[i]]
    ELSE Append(m, [uid |-> uid, sid |-> sid])

\* a delete that names a key the Map does not hold
MapDeleteMisses(m, uid) == m

\* Map.prototype.clear in place of delete: every entry goes
MapDeleteAll(m, uid) == <<>>

\* Map.prototype.delete
RECURSIVE MapDelete(_, _)
MapDelete(m, uid) ==
  IF m = <<>> THEN <<>>
  ELSE IF Head(m).uid = uid THEN MapDelete(Tail(m), uid)
       ELSE <<Head(m)>> \o MapDelete(Tail(m), uid)

\* the scan comparing the key, not the value, with socket.id: it never matches
FirstEntryOfKey(m, sid) ==
  IF \E i \in DOMAIN m : m[i].uid = sid THEN sid ELSE Absent

\* the scan without its comparison: the first entry, whoever holds it
FirstEntryAny(m, sid) == IF m = <<>> THEN Absent ELSE m[1].uid

\* the scan whose comparison is never true: no entry is found
FirstEntryNone(m, sid) == Absent

\* server.js:143-149 the scan of disconnect: the first entry whose sid is the socket's
FirstEntryOf(m, sid) ==
  IF \E i \in DOMAIN m : m[i].sid = sid
    THEN LET k == CHOOSE i \in DOMAIN m :
                    m[i].sid = sid /\ \A j \in DOMAIN m : m[j].sid = sid => i <= j
         IN m[k].uid
    ELSE Absent

\* ---- transport ----------------------------------------------------------------
Connected(st) == {c \in Conns : st[c] = "attached"}
\* io.emit in place of io.to(room).emit : every connected socket
InRoomEveryone(room) == Connected(status)

\* io.to(room) : the sockets that joined room (a closed socket is in no room)
InRoom(room) == {c \in Conns : room \in rooms[c]}

NoRaw == Scalar(Absent)
\* one emit: src is the task that emitted (0 for a synchronous handler), conn its socket
Emission(ev, to, conn, src, room, userId, arg, mid, msg, raw) ==
  [ev |-> ev, to |-> to, conn |-> conn, src |-> src, room |-> room, userId |-> userId,
   arg |-> arg, mid |-> mid, msg |-> msg, raw |-> raw]

\* .populate('sender', ...).populate('readBy', ...) : ids become user documents
Populate(id, m) ==
  [id |-> id, room |-> m.room, sender |-> [_id |-> m.sender], text |-> m.text,
   reactions |-> m.reactions,
   readBy |-> [i \in DOMAIN m.readBy |-> [_id |-> m.readBy[i]]]]
NoDoc == Populate(0, NoMsg)

NumTyping == Cardinality({i \in DOMAIN outbox : outbox[i].ev = "typing"})
NumEvents == Len(tasks) + NumTyping
PendingCreates == Cardinality({i \in DOMAIN tasks : tasks[i].pc = "create"})

\* One invocation of an asynchronous handler: its arguments, the store call or
\* continuation it is waiting for (pc), the document it fetched (doc) and the
\* populated record it will broadcast (populated).
Task(kind, c, room, mid, userId, emoji, pc, doc) ==
  [kind |-> kind, conn |-> c, room |-> room, mid |-> mid, userId |-> userId,
   emoji |-> emoji, pc |-> pc, doc |-> doc, populated |-> NoDoc]

\* message of a send_message payload: absent, or {sender, text}
Texts == {"hi", Absent}
SenderInputs == {Scalar(Absent), Scalar("u1"), Object(Absent, "u2"), Object("u1", "u2"),
                 Object(Absent, Absent)}
NoMessage == [sender |-> Scalar(Absent), text |-> Absent, given |-> FALSE]
MessageInputs == {NoMessage} \cup
  {[sender |-> x, text |-> t, given |-> TRUE] : x \in SenderInputs, t \in Texts}

\* a message already in the database when the server starts; v is the version
\* key (__v) mongoose gives every document
Stored(room, sender, text, reactions, readBy) ==
  [room |-> room, sender |-> sender, text |-> text, reactions |-> reactions,
   readBy |-> readBy, v |-> 0]
InitStores == {<<>>,
  <<Stored("general", "u1", "hi", <<>>, <<>>)>>,
  <<Stored("general", "u1", "hi", <<[userId |-> "u1", emoji |-> "like"]>>, <<>>)>>,
  <<Stored("general", "u1", "hi", <<>>, <<"u1">>)>>}

Idle == [phase |-> "idle"]

Init ==
  /\ status = [c \in Conns |-> "unattached"]
  /\ claimed = [c \in Conns |-> Absent]
  /\ rooms = [c \in Conns |-> {}]
  /\ onlineUsers = <<>>
  /\ store \in InitStores
  /\ tasks = <<>>
  /\ outbox = <<>>
  /\ calc = Idle

\* ---- server.js:58-65  io.on('connection') -----------------------------------
connection(c, a) ==
  /\ status[c] = "unattached"
  /\ status' = [status EXCEPT ![c] = "attached"]
  /\ claimed' = [claimed EXCEPT ![c] = AuthUid(a)]
  /\ IF AuthUid(a) # Absent
       THEN /\ onlineUsers' = MapSet(onlineUsers, AuthUid(a), c)
            /\ outbox' = Append(outbox,
                 Emission("presence_update", Connected(status'), c, 0, Absent,
                          AuthUid(a), "online", 0, NoDoc, NoRaw))
       ELSE UNCHANGED <<onlineUsers, outbox>>
  /\ rooms' = [rooms EXCEPT ![c] = {c}]     \* the transport puts a new socket in the room named by its id
  /\ UNCHANGED <<store, tasks, calc>>

\* ---- server.js:67  socket.on('join_room') -----------------------------------
\* a join that forgets the rooms joined before
JoinReplaces(joined, room) == {room}

\* socket.join(room) : the socket's rooms are a set, the room is added to it
Join(joined, room) == joined \cup {room}

join_room(c, room) ==
  /\ status[c] = "attached"
  /\ rooms' = [rooms EXCEPT ![c] = Join(@, room)]
  /\ UNCHANGED <<status, claimed, onlineUsers, store, tasks, outbox, calc>>

\* ---- server.js:142-150  socket.on('disconnect') -----------------------------
disconnect(c) ==
  /\ status[c] = "attached"
  /\ status' = [status EXCEPT ![c] = "detached"]
  /\ LET uid == FirstEntryOf(onlineUsers, c) IN
       IF uid # Absent
         THEN /\ onlineUsers' = MapDelete(onlineUsers, uid)
              /\ outbox' = Append(outbox,
                   Emission("presence_update", Connected(status'), c, 0, Absent,
                            uid, "offline", 0, NoDoc, NoRaw))
         ELSE UNCHANGED <<onlineUsers, outbox>>
  /\ rooms' = [rooms EXCEPT ![c] = {}]      \* the transport takes a closed socket out of its rooms
  /\ UNCHANGED <<claimed, store, tasks, calc>>

\* server.js:142-150  the disconnect handler run once more for a closed socket
disconnect_again(c) ==
  /\ status[c] = "detached"
  /\ LET uid == FirstEntryOf(onlineUsers, c) IN
       IF uid # Absent
         THEN /\ onlineUsers' = MapDelete(onlineUsers, uid)
              /\ outbox' = Append(outbox,
                   Emission("presence_update", Connected(status), c, 0, Absent,
                            uid, "offline", 0, NoDoc, NoRaw))
         ELSE UNCHANGED <<onlineUsers, outbox>>
  /\ UNCHANGED <<status, claimed, rooms, store, tasks, calc>>

\* ---- server.js:114  socket.on('typing') -------------------------------------
\* io.to(room) in place of socket.to(room) : the sender is not left out
SocketToWholeRoom(c, room) == InRoom(room)

\* socket.to(room) : the room without the sending socket
SocketTo(c, room) == InRoom(room) \ {c}

TypingFlags == {"true", "false"}
TypingIds == {Scalar("u1"), Scalar(Absent), Object("u2", Absent)}
typing(c, room, userId, flag) ==
  /\ status[c] = "attached"
  /\ NumEvents < MaxEvents
  /\ outbox' = Append(outbox,
       Emission("typing", SocketTo(c, room), c, 0, room, Absent, flag, 0, NoDoc, userId))
  /\ UNCHANGED <<status, claimed, rooms, onlineUsers, store, tasks, calc>>

\* ---- events that arrive without a payload -------------------------------------
\* An uncaught exception ends the node process (server.js installs no
\* 'uncaughtException' or 'unhandledRejection' handler): every socket is gone, the
\* Map is lost, pending handlers never resume; the database keeps its messages.
ProcessExit ==
  /\ status' = [c \in Conns |-> "crashed"]
  /\ rooms' = [c \in Conns |-> {}]
  /\ onlineUsers' = <<>>
  /\ tasks' = [i \in DOMAIN tasks |-> [tasks[i] EXCEPT !.pc = "done"]]
  /\ UNCHANGED <<claimed, store, outbox, calc>>

\* server.js:114  ({ room, userId, typing }) => ... called with undefined: the
\* destructuring throws a TypeError out of the synchronous listener
typing_missing(c) ==
  /\ status[c] = "attached"
  /\ ProcessExit

\* server.js:69, 90, 116, 129  async ({ room, ... }) => { try ... } called with
\* undefined: the destructuring is outside the try, the returned promise rejects
\* and nothing handles it; node ends the process or only warns, by its
\* unhandled-rejections mode (fatal)
AsyncEvents == {"send_message", "react", "delivered", "read"}
async_missing(c, ev, fatal) ==
  /\ status[c] = "attached"
  /\ IF fatal THEN ProcessExit ELSE UNCHANGED vars

\* ---- the Message model (models/Message.js, mongoose) -------------------------
\* Message.create : the schema gives a new message no reactions and no readers
Create(fields) ==
  Stored(fields.room, fields.sender, fields.text, <<>>, <<>>)

SetTask(i, t) == tasks' = [tasks EXCEPT ![i] = t]
Finish(i) == SetTask(i, [tasks[i] EXCEPT !.pc = "done"])

\* ---- server.js:69-88  socket.on('send_message') -----------------------------
\* message.sender._id of a missing message or sender throws inside the try
SendThrows(message) == ~message.given \/ message.sender.bare = Absent

\* server.js:71-78  the fields handed to Message.create
CreateFields(room, message) ==
  [sender |-> SenderId(message.sender),
   text |-> IF message.text = Absent THEN "" ELSE message.text,
   room |-> room]

send_message(c, room, message) ==
  /\ status[c] = "attached"
  /\ NumEvents < MaxEvents
  /\ IF SendThrows(message)
       THEN /\ tasks' = Append(tasks,
                  Task("send_message", c, room, 0, Absent, Absent, "done", NoMsg))
            /\ outbox' = Append(outbox,
                  Emission("error_message", {c}, c, Len(tasks) + 1, Absent, Absent,
                           "failed to save", 0, NoDoc, NoRaw))
       ELSE /\ Len(store) + PendingCreates < MaxMsgs
            /\ tasks' = Append(tasks,
                  Task("send_message", c, room, 0, SenderId(message.sender), Absent,
                       "create", Create(CreateFields(room, message))))
            /\ UNCHANGED outbox
  /\ UNCHANGED <<status, claimed, rooms, onlineUsers, store, calc>>

\* server.js:71  await Message.create(...)
send_create(i, ok) ==
  /\ tasks[i].kind = "send_message" /\ tasks[i].pc = "create"
  /\ IF ok
       THEN /\ store' = Append(store, tasks[i].doc)
            /\ SetTask(i, [tasks[i] EXCEPT !.pc = "findById", !.mid = Len(store) + 1])
       ELSE /\ SetTask(i, [tasks[i] EXCEPT !.pc = "catch"])
            /\ UNCHANGED store
  /\ UNCHANGED <<status, claimed, rooms, onlineUsers, outbox, calc>>

\* server.js:79-82  await Message.findById(saved._id).populate(...)
send_findById(i, ok) ==
  /\ tasks[i].kind = "send_message" /\ tasks[i].pc = "findById"
  /\ IF ok
       THEN SetTask(i, [tasks[i] EXCEPT !.pc = "emit",
                          !.populated = Populate(tasks[i].mid, store[tasks[i].mid])])
       ELSE SetTask(i, [tasks[i] EXCEPT !.pc = "catch"])
  /\ UNCHANGED <<status, claimed, rooms, onlineUsers, store, outbox, calc>>

\* server.js:83  io.to(room).emit('receive_message', populated)
send_emit(i) ==
  /\ tasks[i].kind = "send_message" /\ tasks[i].pc = "emit"
  /\ outbox' = Append(outbox,
       Emission("receive_message", InRoom(tasks[i].room), tasks[i].conn, i, tasks[i].room, Absent,
                Absent, tasks[i].mid, tasks[i].populated, NoRaw))
  /\ Finish(i)
  /\ UNCHANGED <<status, claimed, rooms, onlineUsers, store, calc>>

\* server.js:84-87  catch: socket.emit('error_message', ...) to the sender alone
send_catch(i) ==
  /\ tasks[i].kind = "send_message" /\ tasks[i].pc = "catch"
  /\ outbox' = Append(outbox,
       Emission("error_message", {tasks[i].conn} \cap Connected(status), tasks[i].conn, i, Absent,
                Absent, "failed to save", 0, NoDoc, NoRaw))
  /\ Finish(i)
  /\ UNCHANGED <<status, claimed, rooms, onlineUsers, store, calc>>

\* ---- server.js:272-292  socket.on("send_message") of the second revision ----
\* (the same handler in unnamed/part_000:311-331 and unnamed/part_002:82-102)
\* server.js:275-276  sender: message.sender._id || message.sender.id ; text: message.text
CreateFields_b(room, message) ==
  [sender |-> Or(message.sender._id, message.sender.id), text |-> message.text, room |-> room]

\* a throw inside the try is caught by a catch that only logs
send_message_b(c, room, message) ==
  /\ status[c] = "attached"
  /\ NumEvents < MaxEvents
  /\ IF SendThrows(message)
       THEN tasks' = Append(tasks,
              Task("send_message", c, room, 0, Absent, Absent, "done", NoMsg))
       ELSE /\ Len(store) + PendingCreates < MaxMsgs
            /\ tasks' = Append(tasks,
                  Task("send_message", c, room, 0,
                       Or(message.sender._id, message.sender.id), Absent,
                       "create", Create(CreateFields_b(room, message))))
  /\ UNCHANGED <<status, claimed, rooms, onlineUsers, store, outbox, calc>>

\* server.js:289-291  catch (err) { console.error(...) }
send_catch_b(i) ==
  /\ tasks[i].kind = "send_message" /\ tasks[i].pc = "catch"
  /\ Finish(i)
  /\ UNCHANGED <<status, claimed, rooms, onlineUsers, store, outbox, calc>>

\* A client names the id of a message it was told of (or an id that does not
\* resolve): the id of a message whose send_message has not yet broadcast it is
\* known to no client.
Unannounced(id) ==
  \E i \in DOMAIN tasks :
    /\ tasks[i].kind = "send_message" /\ tasks[i].mid = id
    /\ tasks[i].pc \in {"findById", "emit", "catch"}

\* a findById that makes up a blank document for an id the collection lacks
FindByIdBlank(id) ==
  IF id \in DOMAIN store THEN store[id] ELSE Stored("general", "u1", "", <<>>, <<>>)

\* Message.findById(messageId) : the stored document, or null (NoMsg) for an id
\* that does not resolve
FindById(id) == IF id \in DOMAIN store THEN store[id] ELSE NoMsg

\* ---- server.js:90-112  socket.on('react') -----------------------------------
\* a react that takes the user from the socket's handshake, not from the payload
react_as_socket(c, room, messageId, userId, emoji) ==
  /\ status[c] = "attached"
  /\ NumEvents < MaxEvents
  /\ ~Unannounced(messageId)
  /\ tasks' = Append(tasks,
       Task("react", c, room, messageId, claimed[c], emoji,
            IF claimed[c] = Absent THEN "done" ELSE "findById", NoMsg))
  /\ UNCHANGED <<status, claimed, rooms, onlineUsers, store, outbox, calc>>

react(c, room, messageId, userId, emoji) ==
  /\ status[c] = "attached"
  /\ NumEvents < MaxEvents
  /\ ~Unannounced(messageId)
  /\ tasks' = Append(tasks,
       Task("react", c, room, messageId, NormUserId(userId), emoji,
            IF NormUserId(userId) = Absent THEN "done" ELSE "findById", NoMsg))
  /\ UNCHANGED <<status, claimed, rooms, onlineUsers, store, outbox, calc>>

\* server.js:94-102  await Message.findById(messageId); the merge on the fetched copy
react_findById(i, ok) ==
  /\ tasks[i].kind = "react" /\ tasks[i].pc = "findById"
  /\ IF ok /\ FindById(tasks[i].mid) # NoMsg
       THEN SetTask(i, [tasks[i] EXCEPT !.pc = "save",
              !.doc = [FindById(tasks[i].mid) EXCEPT
                         !.reactions = Merge(@, tasks[i].userId, tasks[i].emoji)]])
       ELSE Finish(i)
  /\ UNCHANGED <<status, claimed, rooms, onlineUsers, store, outbox, calc>>

\* msg.save() of an array that was assigned whole ($set) is sent with the version
\* of the fetched copy as a condition: a copy older than the stored document is
\* rejected (VersionError)
VersionMatches(doc, id) == doc.v = store[id].v

\* server.js:103  await msg.save() : the assigned reactions array is written whole
\* and the version is incremented
react_save(i, ok) ==
  /\ tasks[i].kind = "react" /\ tasks[i].pc = "save"
  /\ IF ok /\ VersionMatches(tasks[i].doc, tasks[i].mid)
       THEN /\ store' = [store EXCEPT ![tasks[i].mid].reactions = tasks[i].doc.reactions,
                                      ![tasks[i].mid].v = @ + 1]
            /\ SetTask(i, [tasks[i] EXCEPT !.pc = "populate", !.doc = NoMsg])
       ELSE /\ Finish(i)
            /\ UNCHANGED store
  /\ UNCHANGED <<status, claimed, rooms, onlineUsers, outbox, calc>>

\* server.js:104-107  await Message.findById(messageId).populate(...)
react_populate(i, ok) ==
  /\ tasks[i].kind = "react" /\ tasks[i].pc = "populate"
  /\ IF ok
       THEN SetTask(i, [tasks[i] EXCEPT !.pc = "emit",
                          !.populated = Populate(tasks[i].mid, store[tasks[i].mid])])
       ELSE Finish(i)
  /\ UNCHANGED <<status, claimed, rooms, onlineUsers, store, outbox, calc>>

\* server.js:108  io.to(room).emit('reaction_update', populated)
react_emit(i) ==
  /\ tasks[i].kind = "react" /\ tasks[i].pc = "emit"
  /\ outbox' = Append(outbox,
       Emission("reaction_update", InRoom(tasks[i].room), tasks[i].conn, i, tasks[i].room, Absent,
                Absent, tasks[i].mid, tasks[i].populated, NoRaw))
  /\ Finish(i)
  /\ UNCHANGED <<status, claimed, rooms, onlineUsers, store, calc>>

\* ---- server.js:294-326  socket.on("react") of the second revision ---------------
\* server.js:296  const uid = userId._id || userId.id || userId
ReactUid_b(x) == Or(x._id, Or(x.id, x.bare))

\* There is no `if (!uid) return`. A userId that is undefined or null makes line
\* 296 throw inside the try (logged, the handler ends); the empty string does not
\* throw and goes on to the lookup and the merge (empty).
react_b(c, room, messageId, userId, emoji, empty) ==
  /\ status[c] = "attached"
  /\ NumEvents < MaxEvents
  /\ ~Unannounced(messageId)
  /\ tasks' = Append(tasks,
       Task("react", c, room, messageId, ReactUid_b(userId), emoji,
            IF userId.bare = Absent /\ ~empty THEN "done" ELSE "findById", NoMsg))
  /\ UNCHANGED <<status, claimed, rooms, onlineUsers, store, outbox, calc>>

\* ---- server.js:116-127 socket.on('delivered'), 129-140 socket.on('read') ------
Receipts == {"delivered", "read"}

receipt(kind, c, room, messageId, userId) ==
  /\ status[c] = "attached"
  /\ NumEvents < MaxEvents
  /\ ~Unannounced(messageId)
  /\ tasks' = Append(tasks,
       Task(kind, c, room, messageId, NormUserId(userId), Absent, "findById", NoMsg))
  /\ UNCHANGED <<status, claimed, rooms, onlineUsers, store, outbox, calc>>

\* server.js:119-122  await Message.findById(messageId); push when not included
receipt_findById(i, ok) ==
  /\ tasks[i].kind \in Receipts /\ tasks[i].pc = "findById"
  /\ IF ok /\ FindById(tasks[i].mid) # NoMsg
       THEN LET msg == FindById(tasks[i].mid) IN
            IF MarkSeen(msg.readBy, tasks[i].userId) # msg.readBy
              THEN SetTask(i, [tasks[i] EXCEPT !.pc = "save",
                     !.doc = [msg EXCEPT !.readBy = MarkSeen(@, tasks[i].userId)]])
              ELSE SetTask(i, [tasks[i] EXCEPT !.pc = "emit"])
       ELSE Finish(i)
  /\ UNCHANGED <<status, claimed, rooms, onlineUsers, store, outbox, calc>>

\* server.js:123  await msg.save() : the pushed element is appended to the stored
\* array ($push) and the version is incremented; a push carries no version condition
receipt_save(i, ok) ==
  /\ tasks[i].kind \in Receipts /\ tasks[i].pc = "save"
  /\ IF ok
       THEN /\ store' = [store EXCEPT ![tasks[i].mid].readBy = Append(@, tasks[i].userId),
                                      ![tasks[i].mid].v = @ + 1]
            /\ SetTask(i, [tasks[i] EXCEPT !.pc = "emit", !.doc = NoMsg])
       ELSE /\ Finish(i)
            /\ UNCHANGED store
  /\ UNCHANGED <<status, claimed, rooms, onlineUsers, outbox, calc>>

\* one event name for both handlers
EventAlwaysRead(kind) == "read"

\* server.js:125 / 138  the handler of 'delivered' emits 'delivered', that of 'read' 'read'
EventOf(kind) == kind

\* server.js:125 / 138  io.to(room).emit('delivered' | 'read', { messageId, userId })
receipt_emit(i) ==
  /\ tasks[i].kind \in Receipts /\ tasks[i].pc = "emit"
  /\ outbox' = Append(outbox,
       Emission(EventOf(tasks[i].kind), InRoom(tasks[i].room), tasks[i].conn, i, tasks[i].room,
                tasks[i].userId, Absent, tasks[i].mid, NoDoc, NoRaw))
  /\ Finish(i)
  /\ UNCHANGED <<status, claimed, rooms, onlineUsers, store, calc>>

Next ==
  \/ \E c \in Conns, a \in AuthInputs : connection(c, a)
  \/ \E c \in Conns, room \in Rooms : join_room(c, room)
  \/ \E c \in Conns : disconnect(c)
  \/ \E c \in Conns, room \in Rooms, userId \in TypingIds, flag \in TypingFlags :
       typing(c, room, userId, flag)
  \/ \E c \in Conns, room \in Rooms, message \in MessageInputs :
       send_message(c, room, message)
  \/ \E i \in DOMAIN tasks, ok \in BOOLEAN : send_create(i, ok)
  \/ \E i \in DOMAIN tasks, ok \in BOOLEAN : send_findById(i, ok)
  \/ \E i \in DOMAIN tasks : send_emit(i)
  \/ \E i \in DOMAIN tasks : send_catch(i)
  \/ \E c \in Conns, room \in Rooms, messageId \in MsgIds, userId \in IdInputs,
        emoji \in Emojis : react(c, room, messageId, userId, emoji)
  \/ \E i \in DOMAIN tasks, ok \in BOOLEAN : react_findById(i, ok)
  \/ \E i \in DOMAIN tasks, ok \in BOOLEAN : react_save(i, ok)
  \/ \E i \in DOMAIN tasks, ok \in BOOLEAN : react_populate(i, ok)
  \/ \E i \in DOMAIN tasks : react_emit(i)
  \/ \E kind \in Receipts, c \in Conns, room \in Rooms, messageId \in MsgIds,
        userId \in IdInputs : receipt(kind, c, room, messageId, userId)
  \/ \E i \in DOMAIN tasks, ok \in BOOLEAN : receipt_findById(i, ok)
  \/ \E i \in DOMAIN tasks, ok \in BOOLEAN : receipt_save(i, ok)
  \/ \E i \in DOMAIN tasks : receipt_emit(i)
  \/ \E c \in Conns : typing_missing(c)
  \/ \E c \in Conns, ev \in AsyncEvents, fatal \in BOOLEAN : async_missing(c, ev, fatal)

Spec == Init /\ [][Next]_vars

\* ---- the connection lifecycle alone ------------------------------------------
PresenceNext ==
  \/ \E c \in Conns, a \in AuthInputs : connection(c, a)
  \/ \E c \in Conns, room \in Rooms : join_room(c, room)
  \/ \E c \in Conns : disconnect(c)

PresenceSpec == Init /\ [][PresenceNext]_vars

\* ---- react handlers on the first message, from any socket ---------------------
ReactNext ==
  \/ \E c \in Conns : connection(c, Scalar(Absent))
  \/ \E c \in Conns, userId \in WellFormedIds, emoji \in Emojis :
       react(c, "general", 1, userId, emoji)
  \/ \E i \in DOMAIN tasks, ok \in BOOLEAN : react_findById(i, ok)
  \/ \E i \in DOMAIN tasks, ok \in BOOLEAN : react_save(i, ok)
  \/ \E i \in DOMAIN tasks, ok \in BOOLEAN : react_populate(i, ok)
  \/ \E i \in DOMAIN tasks : react_emit(i)

ReactSpec == Init /\ [][ReactNext]_vars

\* ---- delivered / read handlers on the first message, from any socket ----------
ReceiptNext ==
  \/ \E c \in Conns : connection(c, Scalar(Absent))
  \/ \E kind \in Receipts, c \in Conns, userId \in WellFormedIds :
       receipt(kind, c, "general", 1, userId)
  \/ \E i \in DOMAIN tasks, ok \in BOOLEAN : receipt_findById(i, ok)
  \/ \E i \in DOMAIN tasks, ok \in BOOLEAN : receipt_save(i, ok)
  \/ \E i \in DOMAIN tasks : receipt_emit(i)

ReceiptSpec == Init /\ [][ReceiptNext]_vars

\* ---- send_message with rooms and the connection lifecycle ---------------------
SendSamples == {NoMessage,
  [sender |-> Scalar("u1"), text |-> "hi", given |-> TRUE],
  [sender |-> Object("u1", "u2"), text |-> Absent, given |-> TRUE]}

SendNext ==
  \/ \E c \in Conns : connection(c, Scalar(Absent))
  \/ \E c \in Conns, room \in Rooms : join_room(c, room)
  \/ \E c \in Conns : disconnect(c)
  \/ \E c \in Conns, room \in Rooms, message \in SendSamples :
       send_message(c, room, message)
  \/ \E i \in DOMAIN tasks, ok \in BOOLEAN : send_create(i, ok)
  \/ \E i \in DOMAIN tasks, ok \in BOOLEAN : send_findById(i, ok)
  \/ \E i \in DOMAIN tasks : send_emit(i)
  \/ \E i \in DOMAIN tasks : send_catch(i)

SendSpec == Init /\ [][SendNext]_vars

\* ---- send_message of the second revision, with rooms and the lifecycle --------
SendNext_b ==
  \/ \E c \in Conns : connection(c, Scalar(Absent))
  \/ \E c \in Conns, room \in Rooms : join_room(c, room)
  \/ \E c \in Conns : disconnect(c)
  \/ \E c \in Conns, room \in Rooms, message \in SendSamples :
       send_message_b(c, room, message)
  \/ \E i \in DOMAIN tasks, ok \in BOOLEAN : send_create(i, ok)
  \/ \E i \in DOMAIN tasks, ok \in BOOLEAN : send_findById(i, ok)
  \/ \E i \in DOMAIN tasks : send_emit(i)
  \/ \E i \in DOMAIN tasks : send_catch_b(i)

SendSpec_b == Init /\ [][SendNext_b]_vars

\* ---- typing relays with rooms and the connection lifecycle ---------------------
TypingAuth == {Scalar(Absent), Object(Absent, "u1")}
TypingSamples == {<<Scalar("u1"), "true">>, <<Object("u2", Absent), "false">>}
TypingInit == Init /\ Len(store) = 1 /\ store[1].reactions # <<>>
TypingNext ==
  \/ \E c \in Conns, a \in TypingAuth : connection(c, a)
  \/ \E c \in Conns, room \in Rooms : join_room(c, room)
  \/ \E c \in Conns : disconnect(c)
  \/ \E c \in Conns, p \in TypingSamples : typing(c, "general", p[1], p[2])

TypingSpec == TypingInit /\ [][TypingNext]_vars

\* ---- react naming a missing message, delivered / read a stored or a missing one --
LookupInit == Init /\ Len(store) = 1 /\ store[1].readBy # <<>>
LookupIds == {1, Len(store) + 1}
LookupNext ==
  \/ \E c \in Conns, a \in TypingAuth : connection(c, a)
  \/ \E c \in Conns : join_room(c, "general")
  \/ react("c1", "general", Len(store) + 1, Scalar("u2"), "like")
  \/ \E i \in DOMAIN tasks, ok \in BOOLEAN : react_findById(i, ok)
  \/ \E kind \in Receipts, messageId \in LookupIds :
       receipt(kind, "c2", "general", messageId, Object("u2", Absent))
  \/ \E i \in DOMAIN tasks, ok \in BOOLEAN : receipt_findById(i, ok)
  \/ \E i \in DOMAIN tasks, ok \in BOOLEAN : receipt_save(i, ok)
  \/ \E i \in DOMAIN tasks : receipt_emit(i)

LookupSpec == LookupInit /\ [][LookupNext]_vars

\* ---- the connection lifecycle, with the disconnect handler run again -----------
DetachNext ==
  \/ \E c \in Conns, a \in AuthInputs : connection(c, a)
  \/ \E c \in Conns, room \in Rooms : join_room(c, room)
  \/ \E c \in Conns : disconnect(c)
  \/ \E c \in Conns : disconnect_again(c)

DetachSpec == Init /\ [][DetachNext]_vars

\* ---- typing relays and events without a payload -------------------------------
CrashNext ==
  \/ \E c \in Conns, a \in TypingAuth : connection(c, a)
  \/ \E c \in Conns, room \in Rooms : join_room(c, room)
  \/ \E c \in Conns : disconnect(c)
  \/ \E c \in Conns, p \in TypingSamples : typing(c, "general", p[1], p[2])
  \/ \E c \in Conns : typing_missing(c)
  \/ \E c \in Conns, ev \in AsyncEvents, fatal \in BOOLEAN : async_missing(c, ev, fatal)

CrashSpec == TypingInit /\ [][CrashNext]_vars

\* ---- every room-addressed event, with rooms and the connection lifecycle -------
\* payload rooms: a room that sockets join, and the id of the second socket
RoomTargets == {"general", "c2"}
RoomMessage == [sender |-> Scalar("u1"), text |-> "hi", given |-> TRUE]
RoomNext ==
  \/ \E c \in Conns : connection(c, Scalar(Absent))
  \/ \E c \in Conns, room \in Rooms : join_room(c, room)
  \/ \E c \in Conns : disconnect(c)
  \/ \E c \in Conns, room \in RoomTargets : typing(c, room, Scalar("u1"), "true")
  \/ \E kind \in Receipts, room \in RoomTargets :
       receipt(kind, "c1", room, 1, Scalar("u2"))
  \/ \E i \in DOMAIN tasks : receipt_findById(i, TRUE)
  \/ \E i \in DOMAIN tasks : receipt_save(i, TRUE)
  \/ \E i \in DOMAIN tasks : receipt_emit(i)

RoomSpec == TypingInit /\ [][RoomNext]_vars

\* ---- stored events addressed to a room or to a socket id -------------------------
IsolationNext ==
  \/ \E c \in Conns : connection(c, Scalar(Absent))
  \/ \E c \in Conns : join_room(c, "general")
  \/ \E c \in Conns : disconnect(c)
  \/ \E room \in RoomTargets : send_message("c1", room, RoomMessage)
  \/ \E i \in DOMAIN tasks : send_create(i, TRUE)
  \/ \E i \in DOMAIN tasks : send_findById(i, TRUE)
  \/ \E i \in DOMAIN tasks : send_emit(i)
  \/ \E room \in RoomTargets : react("c1", room, 1, Scalar("u2"), "like")
  \/ \E i \in DOMAIN tasks : react_findById(i, TRUE)
  \/ \E i \in DOMAIN tasks : react_save(i, TRUE)
  \/ \E i \in DOMAIN tasks : react_populate(i, TRUE)
  \/ \E i \in DOMAIN tasks : react_emit(i)

IsolationSpec == TypingInit /\ [][IsolationNext]_vars

\* ---- react of the second revision on the first message -------------------------
ReactSamples_b == {Scalar(Absent), Scalar("u1"), Object("u1", "u2"), Object(Absent, Absent)}
ReactNext_b ==
  \/ \E c \in Conns : connection(c, Scalar(Absent))
  \/ \E c \in Conns : join_room(c, "general")
  \/ \E userId \in ReactSamples_b, empty \in BOOLEAN :
       react_b("c1", "general", 1, userId, "like", empty)
  \/ \E i \in DOMAIN tasks, ok \in BOOLEAN : react_findById(i, ok)
  \/ \E i \in DOMAIN tasks, ok \in BOOLEAN : react_save(i, ok)
  \/ \E i \in DOMAIN tasks, ok \in BOOLEAN : react_populate(i, ok)
  \/ \E i \in DOMAIN tasks : react_emit(i)

ReactSpec_b == TypingInit /\ [][ReactNext_b]_vars

\* ---- react on two stored messages that hold reactions of both users -------------
FrameStore ==
  <<Stored("general", "u1", "hi",
           <<[userId |-> "u1", emoji |-> "like"], [userId |-> "u2", emoji |-> "heart"]>>, <<>>),
    Stored("random", "u2", "yo", <<[userId |-> "u1", emoji |-> "like"]>>, <<"u1">>)>>
FrameInit ==
  /\ status = [c \in Conns |-> "unattached"]
  /\ claimed = [c \in Conns |-> Absent]
  /\ rooms = [c \in Conns |-> {}]
  /\ onlineUsers = <<>>
  /\ store = FrameStore
  /\ tasks = <<>>
  /\ outbox = <<>>
  /\ calc = Idle
FrameIds == {Scalar("u1"), Object("u2", Absent)}
FrameNext ==
  \/ connection("c1", Scalar(Absent))
  \/ \E messageId \in DOMAIN store, userId \in FrameIds, emoji \in Emojis :
       react("c1", "general", messageId, userId, emoji)
  \/ \E i \in DOMAIN tasks, ok \in BOOLEAN : react_findById(i, ok)
  \/ \E i \in DOMAIN tasks, ok \in BOOLEAN : react_save(i, ok)
  \/ \E i \in DOMAIN tasks, ok \in BOOLEAN : react_populate(i, ok)
  \/ \E i \in DOMAIN tasks : react_emit(i)

FrameSpec == FrameInit /\ [][FrameNext]_vars

\* ---- react and delivered for u1 from sockets of any claimed user -----------------
AuthorAuth == {Scalar(Absent), Object(Absent, "u1"), Object(Absent, "u2")}
AuthorNext ==
  \/ \E c \in Conns, a \in AuthorAuth : connection(c, a)
  \/ \E c \in Conns : react(c, "general", 1, Scalar("u1"), "like")
  \/ \E i \in DOMAIN tasks : react_findById(i, TRUE)
  \/ \E i \in DOMAIN tasks, ok \in BOOLEAN : react_save(i, ok)
  \/ \E i \in DOMAIN tasks : react_populate(i, TRUE)
  \/ \E i \in DOMAIN tasks : react_emit(i)
  \/ \E c \in Conns : receipt("delivered", c, "general", 1, Object("u1", Absent))
  \/ \E i \in DOMAIN tasks : receipt_findById(i, TRUE)
  \/ \E i \in DOMAIN tasks : receipt_save(i, TRUE)
  \/ \E i \in DOMAIN tasks : receipt_emit(i)

AuthorSpec == TypingInit /\ [][AuthorNext]_vars

\* ---- delivered / read whose payload carries no user id, or one -------------------
AnonIds == {Scalar(Absent), Scalar("u1")}
AnonNext ==
  \/ \E c \in Conns : connection(c, Scalar(Absent))
  \/ \E c \in Conns : join_room(c, "general")
  \/ \E kind \in Receipts, userId \in AnonIds : receipt(kind, "c1", "general", 1, userId)
  \/ \E i \in DOMAIN tasks, ok \in BOOLEAN : receipt_findById(i, ok)
  \/ \E i \in DOMAIN tasks, ok \in BOOLEAN : receipt_save(i, ok)
  \/ \E i \in DOMAIN tasks : receipt_emit(i)

AnonSpec == TypingInit /\ [][AnonNext]_vars

\* ---- the merge block applied twice to a drawn reaction array -------------------
MaxLen == 2         \* longest reaction array drawn
ReactionPairs == {[userId |-> u, emoji |-> e] : u \in Users, e \in Emojis}
ReactionArrays == UNION {[1..n -> ReactionPairs] : n \in 0..MaxLen}

MergeInit ==
  /\ status = [c \in Conns |-> "unattached"]
  /\ claimed = [c \in Conns |-> Absent]
  /\ rooms = [c \in Conns |-> {}]
  /\ onlineUsers = <<>>
  /\ store = <<>>
  /\ tasks = <<>>
  /\ outbox = <<>>
  /\ calc \in {[phase |-> "start", reactions |-> r, userId |-> u, e1 |-> a, e2 |-> b,
                 once |-> <<>>, twice |-> <<>>] :
                 r \in ReactionArrays, u \in Users, a \in Emojis, b \in Emojis}

MergeFirst ==
  /\ calc.phase = "start"
  /\ calc' = [calc EXCEPT !.phase = "once",
                          !.once = Merge(calc.reactions, calc.userId, calc.e1)]
  /\ UNCHANGED <<status, claimed, rooms, onlineUsers, store, tasks, outbox>>

MergeSecond ==
  /\ calc.phase = "once"
  /\ calc' = [calc EXCEPT !.phase = "twice",
                          !.twice = Merge(calc.once, calc.userId, calc.e2)]
  /\ UNCHANGED <<status, claimed, rooms, onlineUsers, store, tasks, outbox>>

MergeNext == MergeFirst \/ MergeSecond

MergeSpec == MergeInit /\ [][MergeNext]_vars

\* ---- helpers of the properties -------------------------------------------------
By(reactions, u) == {i \in DOMAIN reactions : reactions[i].userId = u}
Occurrences(readBy, u) == Cardinality({i \in DOMAIN readBy : readBy[i] = u})
Emitted(i, ev) == \E k \in DOMAIN outbox : outbox[k].src = i /\ outbox[k].ev = ev

\* C1: in every reachable state, whatever the interleaving of the react handlers'
\* store calls, every stored message has at most one reaction per user id.
C1_OneReactionPerUser ==
  \A m \in DOMAIN store : \A u \in Users : Cardinality(By(store[m].reactions, u)) <= 1

\* u2's react was saved and broadcast while u1's react, which fetched the message
\* before that save, still waits for its own save
C1_Witness ==
  \E i, j \in DOMAIN tasks :
    /\ tasks[i].kind = "react" /\ tasks[j].kind = "react"
    /\ tasks[i].userId = "u1" /\ tasks[j].userId = "u2"
    /\ tasks[i].mid = 1 /\ tasks[j].mid = 1
    /\ Emitted(j, "reaction_update") /\ By(store[1].reactions, "u2") # {}
    /\ tasks[i].pc = "save" /\ By(tasks[i].doc.reactions, "u2") = {}

\* C2: in every reachable state, whatever the interleaving of the delivered and
\* read handlers, no user id occurs twice in a message's readBy.
C2_NoDuplicateReaders ==
  \A m \in DOMAIN store : \A u \in Users : Occurrences(store[m].readBy, u) <= 1

\* ---- presence ------------------------------------------------------------------
Live(c) == status[c] = "attached"
EntriesOf(m, uid) == {i \in DOMAIN m : m[i].uid = uid}
IsPresence(e, u) == e.ev = "presence_update" /\ e.userId = u
\* the presence_update emits about u, and those of them emitted in c's handlers
PresenceAbout(log, u) == SelectSeq(log, LAMBDA e : IsPresence(e, u))
PresenceBy(log, u, c) == SelectSeq(log, LAMBDA e : IsPresence(e, u) /\ e.conn = c)
Statuses(es) == [i \in DOMAIN es |-> es[i].arg]

\* C3: the presence map never holds two entries for one user id, and a connection
\* whose handshake resolves to a user id leaves exactly one entry for that id,
\* holding the new socket's id, also when the id already had an entry.
C3_OneHandlePerUser ==
  /\ [](\A u \in Users : Cardinality(EntriesOf(onlineUsers, u)) <= 1)
  /\ [][\A c \in Conns, a \in AuthInputs :
          (connection(c, a) /\ AuthUid(a) # Absent)
            => /\ Cardinality(EntriesOf(onlineUsers', AuthUid(a))) = 1
               /\ MapGet(onlineUsers', AuthUid(a)) = c
               /\ Len(onlineUsers') =
                    IF MapHas(onlineUsers, AuthUid(a)) THEN Len(onlineUsers)
                                                       ELSE Len(onlineUsers) + 1]_vars

\* a second socket claimed u1 while the first was live, and holds the one entry
C3_Witness ==
  /\ Live("c1") /\ Live("c2") /\ claimed["c1"] = "u1" /\ claimed["c2"] = "u1"
  /\ onlineUsers = <<[uid |-> "u1", sid |-> "c2"]>>
  /\ Len(PresenceAbout(outbox, "u1")) = 2

\* C4: when the entry of user u holds socket c's id and c disconnects, u has no
\* entry right after.
C4_OfflineAfterDetach ==
  [][\A c \in Conns, u \in Users :
       (MapGet(onlineUsers, u) = c /\ disconnect(c)) => ~MapHas(onlineUsers', u)]_vars

\* the socket holding u2's entry disconnected while another user stayed online
C4_Witness ==
  /\ status["c2"] = "detached" /\ claimed["c2"] = "u2" /\ ~MapHas(onlineUsers, "u2")
  /\ MapGet(onlineUsers, "u1") = "c1"
  /\ Statuses(PresenceAbout(outbox, "u2")) = <<"online", "offline">>

\* C5: a user id has an entry exactly when some live socket claimed it at attach time.
C5_OnlineIffLiveClaim ==
  \A u \in Users : MapHas(onlineUsers, u) <=> (\E c \in Conns : Live(c) /\ claimed[c] = u)

\* C6: when socket c, attached as u, disconnects and no other socket's handler
\* has emitted a presence_update about u since c's own, the disconnect emits
\* {u, offline}, and c's handlers have then emitted exactly two presence_update
\* about u, online first and offline second; when no other socket ever claimed u
\* these two are all the presence_update about u.
C6_OnlineThenOffline ==
  [][\A c \in Conns :
       LET u == claimed[c]
           about == PresenceAbout(outbox, u)
       IN (/\ disconnect(c) /\ u # Absent
           /\ about # <<>> /\ about[Len(about)].conn = c)
            => /\ Len(outbox') = Len(outbox) + 1
               /\ Statuses(PresenceBy(outbox', u, c)) = <<"online", "offline">>
               /\ (\A d \in Conns \ {c} : claimed[d] # u)
                     => Statuses(PresenceAbout(outbox', u)) = <<"online", "offline">>]_vars

\* c1 attached as u1 and disconnected, the other socket never claimed u1
C6_Witness ==
  /\ status["c1"] = "detached" /\ claimed["c1"] = "u1" /\ claimed["c2"] # "u1"
  /\ status["c2"] = "attached"
  /\ Statuses(PresenceAbout(outbox, "u1")) = <<"online", "offline">>

\* ---- reactions -----------------------------------------------------------------
\* the reaction_update emits about message m
UpdatesOf(m) == SelectSeq(outbox, LAMBDA e : e.ev = "reaction_update" /\ e.mid = m)
SameReact(i, j) ==
  /\ tasks[i].kind = "react" /\ tasks[j].kind = "react"
  /\ tasks[i].conn = tasks[j].conn /\ tasks[i].room = tasks[j].room
  /\ tasks[i].mid = tasks[j].mid /\ tasks[i].userId = tasks[j].userId
  /\ tasks[i].emoji = tasks[j].emoji

\* C7: when one socket sent the same react twice for u2, who had no reaction on
\* the message, no other react named the message, and both handlers ran to their
\* broadcast, the stored message and the last reaction_update hold no reaction of u2.
C7_SecondReactTogglesOff ==
  \A i, j \in DOMAIN tasks :
    (/\ i < j /\ SameReact(i, j) /\ tasks[i].userId = "u2"
     /\ tasks[i].mid \in DOMAIN store
     /\ \A k \in DOMAIN tasks \ {i, j} :
           ~(tasks[k].kind = "react" /\ tasks[k].mid = tasks[i].mid)
     /\ Emitted(i, "reaction_update") /\ Emitted(j, "reaction_update"))
    => LET m == tasks[i].mid
           ups == UpdatesOf(m)
       IN /\ By(store[m].reactions, "u2") = {}
          /\ By(ups[Len(ups)].msg.reactions, "u2") = {}

\* C8 as stated: from every starting array, (u, e1) then (u, e1) leaves no reaction
\* of u; (u, e1) then (u, e2), e1 # e2, leaves exactly one, with emoji e2.
C8_MergeTwiceAnyStart ==
  calc.phase = "twice" =>
    IF calc.e1 = calc.e2
      THEN By(calc.twice, calc.userId) = {}
      ELSE /\ Cardinality(By(calc.twice, calc.userId)) = 1
           /\ \A i \in By(calc.twice, calc.userId) : calc.twice[i].emoji = calc.e2

\* C8 amended: the toggle-off half holds from the starting arrays in which u has no
\* reaction with emoji e1; the replace half from every starting array.
C8_MergeTwice ==
  calc.phase = "twice" =>
    IF calc.e1 = calc.e2
      THEN (\A i \in By(calc.reactions, calc.userId) : calc.reactions[i].emoji # calc.e1)
             => By(calc.twice, calc.userId) = {}
      ELSE /\ Cardinality(By(calc.twice, calc.userId)) = 1
           /\ \A i \in By(calc.twice, calc.userId) : calc.twice[i].emoji = calc.e2

\* u1 started with another emoji, reacted twice with "like", and has no reaction left
C8_Witness ==
  /\ calc.phase = "twice" /\ calc.userId = "u1" /\ calc.e1 = "like" /\ calc.e2 = "like"
  /\ calc.reactions = <<[userId |-> "u2", emoji |-> "like"], [userId |-> "u1", emoji |-> "heart"]>>
  /\ calc.once = <<[userId |-> "u2", emoji |-> "like"], [userId |-> "u1", emoji |-> "like"]>>
  /\ calc.twice = <<[userId |-> "u2", emoji |-> "like"]>>

\* ---- receipts ------------------------------------------------------------------
SameReceipt(i, j) ==
  /\ tasks[i].kind \in Receipts /\ tasks[j].kind \in Receipts
  /\ tasks[i].mid = tasks[j].mid /\ tasks[i].userId = tasks[j].userId
Broadcast(i) == Emitted(i, "delivered") \/ Emitted(i, "read")

\* C9: the receipt block is idempotent on every readBy the store holds, and a
\* delivered or read handler that fetches the message after another handler for
\* the same message and user has broadcast goes on without a save and leaves the
\* store as it is.
C9_MarkSeenIdempotent ==
  /\ [](\A m \in DOMAIN store, u \in Users :
          MarkSeen(MarkSeen(store[m].readBy, u), u) = MarkSeen(store[m].readBy, u))
  /\ [][\A i \in DOMAIN tasks :
          (/\ receipt_findById(i, TRUE) /\ tasks[i].mid \in DOMAIN store
           /\ \E j \in DOMAIN tasks \ {i} : SameReceipt(i, j) /\ Broadcast(j))
            => tasks'[i].pc = "emit" /\ store' = store]_vars

\* delivered then read for u2 on a message u2 had not read: both broadcast, u2 stored once
C9_Witness ==
  /\ Len(tasks) = 2 /\ SameReceipt(1, 2) /\ tasks[1].userId = "u2"
  /\ tasks[1].kind = "delivered" /\ tasks[2].kind = "read"
  /\ outbox # <<>> /\ outbox[1].src = 1 /\ tasks[2].pc = "emit" /\ tasks[2].doc = NoMsg
  /\ Occurrences(store[1].readBy, "u2") = 1

\* ---- send_message --------------------------------------------------------------
\* C10: the emit of a send_message whose store calls succeeded goes, once, to
\* exactly the sockets joined to the room of the payload, and carries that room,
\* the sender and text handed to the store, no reactions and no readers.
C10_ReceiveMessage ==
  [][\A i \in DOMAIN tasks :
       send_emit(i) =>
         LET e == outbox'[Len(outbox')] IN
           /\ Len(outbox') = Len(outbox) + 1
           /\ e.ev = "receive_message" /\ e.src = i
           /\ e.to = {c \in Conns : Live(c) /\ tasks[i].room \in rooms[c]}
           /\ e.msg.room = tasks[i].room
           /\ e.msg.sender = [_id |-> tasks[i].userId]
           /\ e.msg.text = tasks[i].doc.text
           /\ e.msg.reactions = <<>> /\ e.msg.readBy = <<>>
           /\ ~Emitted(i, "receive_message")
           /\ tasks'[i].pc = "done"]_vars

\* both sockets joined "general"; c1's message from u1 reached both, itself included
C10_Witness ==
  \E k \in DOMAIN outbox :
    /\ outbox[k].ev = "receive_message" /\ outbox[k].conn = "c1"
    /\ outbox[k].to = {"c1", "c2"} /\ outbox[k].room = "general"
    /\ outbox[k].msg.sender = [_id |-> "u1"] /\ outbox[k].msg.text = "hi"
    /\ outbox[k].msg.reactions = <<>> /\ outbox[k].msg.readBy = <<>>

\* a send_message whose Message.create was rejected: it holds no message id
CreateFailed(i) ==
  tasks[i].kind = "send_message" /\ tasks[i].pc = "catch" /\ tasks[i].mid = 0

\* C11: a rejected Message.create adds no message and emits nothing by itself; the
\* handler then emits one error_message, to the sending socket alone (when it is
\* still connected), never emits receive_message, and never calls create again.
C11_CreateFailureIsPrivate ==
  /\ [](\A i \in DOMAIN tasks :
          (tasks[i].kind = "send_message" /\ tasks[i].mid = 0
             /\ tasks[i].pc \in {"catch", "done"}) => ~Emitted(i, "receive_message"))
  /\ [][\A i \in DOMAIN tasks :
          /\ send_create(i, FALSE) => (store' = store /\ outbox' = outbox)
          /\ (tasks[i].pc \in {"catch", "done"}) => (tasks'[i].pc \in {"catch", "done"})
          /\ (CreateFailed(i) /\ tasks'[i].pc # "catch")
               => LET e == outbox'[Len(outbox')] IN
                    /\ Len(outbox') = Len(outbox) + 1
                    /\ e.ev = "error_message" /\ e.src = i
                    /\ e.to = (IF Live(tasks[i].conn) THEN {tasks[i].conn} ELSE {})
                    /\ tasks'[i].pc = "done" /\ store' = store]_vars

\* ---- typing -------------------------------------------------------------------
\* C12: a typing event of socket c for a room emits one typing {userId, typing}
\* with the payload's userId and flag to exactly the other connected sockets that
\* joined the room, never to c, and leaves the messages and the presence map alone.
C12_TypingRelay ==
  [][\A c \in Conns, room \in Rooms, userId \in TypingIds, flag \in TypingFlags :
       typing(c, room, userId, flag) =>
         LET e == outbox'[Len(outbox')] IN
           /\ Len(outbox') = Len(outbox) + 1
           /\ e.ev = "typing" /\ e.raw = userId /\ e.arg = flag
           /\ e.to = {d \in Conns \ {c} : Live(d) /\ room \in rooms[d]}
           /\ c \notin e.to
           /\ store' = store /\ onlineUsers' = onlineUsers /\ rooms' = rooms]_vars

\* c1 and c2 both joined "general"; c1's typing went to c2 alone, u1 stayed online
C12_Witness ==
  \E k \in DOMAIN outbox :
    /\ outbox[k].ev = "typing" /\ outbox[k].conn = "c1" /\ outbox[k].room = "general"
    /\ outbox[k].to = {"c2"} /\ outbox[k].raw = Scalar("u1") /\ outbox[k].arg = "true"
    /\ "general" \in rooms["c1"] \cap rooms["c2"]
    /\ MapHas(onlineUsers, "u1")

\* ---- lookups ------------------------------------------------------------------
Lookup(i) == tasks[i].kind \in {"react"} \cup Receipts
Unresolved(i) == Lookup(i) /\ tasks[i].mid \notin DOMAIN store

\* C13: a react, delivered or read handler whose message id names no stored message
\* never gets past its findById, never emits anything, and its steps change neither
\* the messages nor the presence map.
C13_NotFoundIsSilent ==
  /\ [](\A i \in DOMAIN tasks :
          Unresolved(i) => /\ tasks[i].pc \in {"findById", "done"}
                           /\ \A k \in DOMAIN outbox : outbox[k].src # i)
  /\ [][\A i \in DOMAIN tasks :
          (Unresolved(i) /\ tasks'[i] # tasks[i])
            => /\ tasks'[i].pc = "done"
               /\ store' = store /\ onlineUsers' = onlineUsers /\ outbox' = outbox]_vars

\* a react and a read both named a missing message and returned; both sockets sit
\* in the room, u1 is online, and nothing was emitted but the presence_update
C13_Witness ==
  /\ Len(tasks) = 2 /\ Unresolved(1) /\ Unresolved(2)
  /\ tasks[1].kind = "react" /\ tasks[2].kind = "read"
  /\ tasks[1].pc = "done" /\ tasks[2].pc = "done"
  /\ "general" \in rooms["c1"] \cap rooms["c2"]
  /\ MapHas(onlineUsers, "u1")
  /\ \A k \in DOMAIN outbox : outbox[k].ev = "presence_update"

\* ---- receipts on a stored message ---------------------------------------------
\* C14 as stated: a delivered or read handler for a stored message that has
\* returned has broadcast its event.
C14_AlwaysBroadcast ==
  \A i \in DOMAIN tasks :
    (tasks[i].kind \in Receipts /\ tasks[i].mid \in DOMAIN store /\ tasks[i].pc = "done")
      => Broadcast(i)

\* C14: for a stored message, a delivered or read handler whose findById succeeds
\* goes on to save exactly when the fetched readBy lacks the user, and straight to
\* its emit otherwise; a save that succeeds goes on to the emit; the emit sends the
\* handler's own event with the message id and user id to the sockets in the room;
\* and the messages change only in a successful save of a handler that had fetched
\* a readBy without the user.
C14_BroadcastWhenStoreSucceeds ==
  [][/\ \A i \in DOMAIN tasks :
          /\ (receipt_findById(i, TRUE) /\ tasks[i].mid \in DOMAIN store)
               => /\ tasks'[i].pc =
                       (IF Occurrences(store[tasks[i].mid].readBy, tasks[i].userId) = 0
                          THEN "save" ELSE "emit")
                  /\ store' = store
          /\ receipt_save(i, TRUE) => tasks'[i].pc = "emit"
          /\ (tasks[i].kind \in Receipts /\ tasks[i].pc = "emit" /\ tasks'[i] # tasks[i])
               => LET e == outbox'[Len(outbox')] IN
                    /\ Len(outbox') = Len(outbox) + 1
                    /\ e.ev = tasks[i].kind /\ e.src = i
                    /\ e.mid = tasks[i].mid /\ e.userId = tasks[i].userId
                    /\ e.to = {c \in Conns : Live(c) /\ tasks[i].room \in rooms[c]}
                    /\ tasks'[i].pc = "done" /\ store' = store
     /\ (\A m \in DOMAIN store : store'[m].readBy # store[m].readBy
            => \E i \in DOMAIN tasks :
                 /\ receipt_save(i, TRUE) /\ tasks[i].mid = m
                 /\ Occurrences(tasks[i].doc.readBy, tasks[i].userId) = 1)]_vars

\* delivered then read for u2 on message 1: the first wrote u2 and broadcast, the
\* second found u2 and broadcast without a write, both to the two sockets in the room
C14_Witness ==
  /\ Len(tasks) = 2 /\ tasks[1].kind = "delivered" /\ tasks[2].kind = "read"
  /\ tasks[1].mid = 1 /\ tasks[2].mid = 1 /\ tasks[1].pc = "done" /\ tasks[2].pc = "done"
  /\ Len(outbox) >= 2
  /\ LET d == outbox[Len(outbox) - 1]
         r == outbox[Len(outbox)]
     IN /\ d.ev = "delivered" /\ d.src = 1 /\ d.to = {"c1", "c2"} /\ d.userId = "u2"
        /\ r.ev = "read" /\ r.src = 2 /\ r.to = {"c1", "c2"} /\ r.mid = 1
  /\ store[1].readBy = <<"u1", "u2">>

\* ---- ordering of one socket's events -------------------------------------------
\* the position in the outbox of the receive_message of task i (0 when none)
ReceivePos(i) ==
  IF Emitted(i, "receive_message")
    THEN CHOOSE k \in DOMAIN outbox : outbox[k].src = i /\ outbox[k].ev = "receive_message"
    ELSE 0
Started(i) == tasks[i].pc # "create"

\* C15: of two send_message events of one socket, the later handler has not got
\* past its first store call while the earlier one has not returned, and when both
\* name one room and both broadcast, the broadcasts are in arrival order.
C15_PerConnectionOrder ==
  \A i, j \in DOMAIN tasks :
    (/\ i < j /\ tasks[i].kind = "send_message" /\ tasks[j].kind = "send_message"
     /\ tasks[i].conn = tasks[j].conn)
      => /\ Started(j) => tasks[i].pc = "done"
         /\ (tasks[i].room = tasks[j].room /\ ReceivePos(i) > 0 /\ ReceivePos(j) > 0)
              => ReceivePos(i) < ReceivePos(j)

\* ---- mutual exclusion per message ---------------------------------------------
\* a handler that fetched the message and has not yet persisted its change
InMerge(i) == Lookup(i) /\ tasks[i].pc = "save"

\* C16: no two react / delivered / read handlers for one message are between their
\* fetch and their save at once, and when u1 (with "heart") and u2 reacted to one
\* message from different sockets, no other handler ran and both broadcast, the
\* stored message holds a reaction of each.
C16_MergesAreExclusive ==
  \A i, j \in DOMAIN tasks :
    (i # j /\ tasks[i].mid = tasks[j].mid)
      => /\ ~(InMerge(i) /\ InMerge(j))
         /\ (/\ Len(tasks) = 2 /\ tasks[i].kind = "react" /\ tasks[j].kind = "react"
             /\ tasks[i].conn # tasks[j].conn /\ tasks[i].mid \in DOMAIN store
             /\ tasks[i].userId = "u1" /\ tasks[i].emoji = "heart" /\ tasks[j].userId = "u2"
             /\ Emitted(i, "reaction_update") /\ Emitted(j, "reaction_update"))
              => /\ By(store[tasks[i].mid].reactions, "u1") # {}
                 /\ By(store[tasks[i].mid].reactions, "u2") # {}

\* ---- disconnect ---------------------------------------------------------------
Holds(c) == \E i \in DOMAIN onlineUsers : onlineUsers[i].sid = c

\* C17: a run of the disconnect handler for socket c, the first or a later one,
\* removes an entry and emits {uid, offline} exactly when some entry holds c's id,
\* and then removes the entries holding c's id and no other; when no entry holds
\* c's id the map and the outbox stay as they are.
C17_DetachOnlyMatching ==
  [][\A c \in Conns :
       (disconnect(c) \/ disconnect_again(c))
         => /\ \A u \in Users :
                 MapGet(onlineUsers', u) = (IF MapGet(onlineUsers, u) = c
                                              THEN Absent ELSE MapGet(onlineUsers, u))
            /\ IF Holds(c)
                 THEN /\ Len(onlineUsers') = Len(onlineUsers) - 1
                      /\ Len(outbox') = Len(outbox) + 1
                      /\ outbox'[Len(outbox')].ev = "presence_update"
                      /\ outbox'[Len(outbox')].arg = "offline"
                      /\ MapGet(onlineUsers, outbox'[Len(outbox')].userId) = c
                 ELSE onlineUsers' = onlineUsers /\ outbox' = outbox]_vars

\* c1 claimed u1, c2 claimed u1 after it, and c1 closed: u1 still maps to c2 and
\* no offline was emitted
C17_Witness ==
  /\ status["c1"] = "detached" /\ claimed["c1"] = "u1"
  /\ Live("c2") /\ claimed["c2"] = "u1"
  /\ onlineUsers = <<[uid |-> "u1", sid |-> "c2"]>>
  /\ Statuses(PresenceAbout(outbox, "u1")) = <<"online", "online">>

\* ---- failures -----------------------------------------------------------------
\* C18: the process never ends, and an event that arrives without a payload fails
\* alone: it leaves the sockets, their rooms, the presence map and the messages as
\* they are, so that later events are handled.
C18_NoFailureIsFatal ==
  /\ [](\A c \in Conns : status[c] # "crashed")
  /\ [][\A c \in Conns :
          (typing_missing(c) \/ \E ev \in AsyncEvents, fatal \in BOOLEAN :
                                   async_missing(c, ev, fatal))
            => /\ status' = status /\ rooms' = rooms
               /\ onlineUsers' = onlineUsers /\ store' = store]_vars

\* ---- after disconnect ----------------------------------------------------------
\* an emit that reached some socket was appended in this step
Delivers == Len(outbox') > Len(outbox) /\ outbox'[Len(outbox')].to # {}

\* C19: once a socket has disconnected, no new handler starts for it, its rooms
\* stay empty, and no step of a handler it left pending changes the messages or
\* the presence map or emits to any socket.
C19_NothingAfterDetach ==
  [][\A c \in Conns :
       status[c] = "detached"
         => /\ rooms'[c] = rooms[c]
            /\ \A i \in DOMAIN tasks' : i \notin DOMAIN tasks => tasks'[i].conn # c
            /\ \A i \in DOMAIN tasks :
                 (tasks[i].conn = c /\ tasks'[i] # tasks[i])
                   => store' = store /\ onlineUsers' = onlineUsers /\ ~Delivers]_vars

\* ---- connection ---------------------------------------------------------------
CarriesId(a) == a.bare # Absent /\ (a._id # Absent \/ a.id # Absent)
CarriedId(a) == IF a._id # Absent THEN a._id ELSE a.id

\* C20: a connection whose handshake user carries an id (_id, else id) maps that id
\* to the new socket and emits one presence_update {id, online} to every connected
\* socket, the new one included, whatever rooms they joined; a connection whose
\* handshake carries no id leaves the map and the outbox as they are.
C20_AttachAnnounces ==
  [][\A c \in Conns, a \in AuthInputs :
       connection(c, a) =>
         IF CarriesId(a)
           THEN LET e == outbox'[Len(outbox')] IN
                  /\ MapGet(onlineUsers', CarriedId(a)) = c
                  /\ \A u \in Users \ {CarriedId(a)} :
                       MapGet(onlineUsers', u) = MapGet(onlineUsers, u)
                  /\ Len(outbox') = Len(outbox) + 1
                  /\ e.ev = "presence_update" /\ e.userId = CarriedId(a) /\ e.arg = "online"
                  /\ e.to = {d \in Conns : status'[d] = "attached"} /\ c \in e.to
           ELSE onlineUsers' = onlineUsers /\ outbox' = outbox]_vars

\* c1 attached without an id and joined "general": nothing was emitted; then c2
\* attached as u2, in no room but its own, and the one presence_update went to both
C20_Witness ==
  /\ Live("c1") /\ claimed["c1"] = Absent /\ rooms["c1"] = {"c1", "general"}
  /\ Live("c2") /\ claimed["c2"] = "u2" /\ rooms["c2"] = {"c2"}
  /\ onlineUsers = <<[uid |-> "u2", sid |-> "c2"]>>
  /\ Len(outbox) = 1 /\ outbox[1].to = {"c1", "c2"} /\ outbox[1].userId = "u2"
  /\ outbox[1].arg = "online"

\* ---- rooms ----------------------------------------------------------------------
RoomEvents == {"receive_message", "reaction_update", "typing", "delivered", "read"}
\* the emit appended by this step, when the step appended one
Emits == Len(outbox') = Len(outbox) + 1
Emit == outbox'[Len(outbox')]

\* C21: join_room adds the room to the socket's rooms and changes nothing else, a
\* join of a room the socket is already in changes nothing at all; a socket stays
\* in its rooms while it is connected; every room-addressed emit goes to each socket
\* that is in the room when it is emitted (typing: except its sender), and a step
\* emits at most once.
C21_JoinRoom ==
  [][/\ \A c \in Conns, room \in Rooms :
          join_room(c, room)
            => /\ rooms'[c] = rooms[c] \cup {room}
               /\ \A d \in Conns \ {c} : rooms'[d] = rooms[d]
               /\ status' = status /\ outbox' = outbox /\ store' = store
               /\ room \in rooms[c] => rooms' = rooms
     /\ \A c \in Conns, room \in Rooms :
          (room \in rooms[c] /\ status'[c] = "attached") => room \in rooms'[c]
     /\ Len(outbox') \in {Len(outbox), Len(outbox) + 1}
     /\ (Emits /\ Emit.ev \in RoomEvents)
          => \A c \in Conns :
               (Emit.room \in rooms[c] /\ ~(Emit.ev = "typing" /\ Emit.conn = c))
                 => c \in Emit.to]_vars

\* c2 is in both rooms; one delivered and one typing addressed to "general" were
\* emitted, and c2 is among the recipients of each
C21_Witness ==
  /\ rooms["c2"] = {"c2", "general", "random"}
  /\ Len(outbox) = 2
  /\ \E k \in DOMAIN outbox :
       outbox[k].ev = "delivered" /\ outbox[k].room = "general" /\ "c2" \in outbox[k].to
  /\ \E k \in DOMAIN outbox :
       outbox[k].ev = "typing" /\ outbox[k].room = "general" /\ "c2" \in outbox[k].to

\* ---- the payload of a broadcast against the stored message -----------------------
\* the user ids of a populated readBy
ReadByIds(populated) == [i \in DOMAIN populated.readBy |-> populated.readBy[i]._id]

\* C22: when receive_message or reaction_update is emitted, the reactions and the
\* readBy of its payload are those of the stored message at that moment.
C22_BroadcastIsCurrent ==
  [][(Emits /\ Emit.ev \in {"receive_message", "reaction_update"})
       => /\ Emit.msg.reactions = store[Emit.mid].reactions
          /\ ReadByIds(Emit.msg) = store[Emit.mid].readBy]_vars

\* ---- the order of presence updates ----------------------------------------------
\* C23: the presence_update emits about one user alternate, beginning with online:
\* online at the odd places, offline at the even ones.
C23_PresenceAlternates ==
  \A u \in Users :
    LET s == Statuses(PresenceAbout(outbox, u)) IN
      \A k \in DOMAIN s : s[k] = IF k % 2 = 1 THEN "online" ELSE "offline"

\* ---- malformed user ids ----------------------------------------------------------
\* C24: no handler run ends the process; a react whose user id is absent or empty
\* emits nothing, and no stored reaction carries an absent or empty user id.
C24_MalformedIdentity ==
  /\ \A c \in Conns : status[c] # "crashed"
  /\ \A i \in DOMAIN tasks :
       (tasks[i].kind = "react" /\ tasks[i].userId = Absent)
         => ~Emitted(i, "reaction_update")
  /\ \A m \in DOMAIN store : \A k \in DOMAIN store[m].reactions :
       store[m].reactions[k].userId # Absent

\* ---- what a react leaves alone ---------------------------------------------------
\* the reactions of the users other than u, in their order
OthersOf(reactions, u) == SelectSeq(reactions, LAMBDA r : r.userId # u)

C27_HandlesAreLive ==
  /\ \A i \in DOMAIN onlineUsers : Live(onlineUsers[i].sid)
  /\ \A i, j \in DOMAIN onlineUsers : onlineUsers[i].sid = onlineUsers[j].sid => i = j
  /\ (\A c \in Conns : ~Live(c)) => onlineUsers = <<>>

\* c1 claimed u1, c2 claimed u1 over it, then c1 disconnected (its scan found no
\* entry); a third state of the map: u1's entry is c2's and c2 is connected
C27_Witness ==
  /\ status["c1"] = "detached" /\ claimed["c1"] = "u1"
  /\ Live("c2") /\ claimed["c2"] = "u1"
  /\ onlineUsers = <<[uid |-> "u1", sid |-> "c2"]>>

\* C28: for a user with at least one presence_update, the last presence_update about
\* the user says online exactly when onlineUsers has an entry for the user.
C28_LastUpdateIsTable ==
  \A u \in Users :
    LET s == Statuses(PresenceAbout(outbox, u)) IN
      s # <<>> => (s[Len(s)] = "online" <=> MapHas(onlineUsers, u))

\* two sockets claimed u1 and the second one disconnected: the last update says
\* offline and the map has no entry for u1, though the first socket is connected
C28_Witness ==
  /\ Live("c1") /\ claimed["c1"] = "u1"
  /\ Statuses(PresenceAbout(outbox, "u1")) = <<"online", "online", "offline">>
  /\ ~MapHas(onlineUsers, "u1")

\* ---- who is sent a room-addressed event --------------------------------------------
\* the rooms a socket joined by join_room: those it is in, but for the room named
\* by its own id, which the transport put it in at the connection
Joined(c) == rooms[c] \ {c}

\* C29: a room-addressed emit (receive_message, reaction_update, typing, delivered,
\* read) is sent only to connected sockets that joined the room it is addressed to.
C29_RoomIsolation ==
  [][(Emits /\ Emit.ev \in RoomEvents)
       => \A c \in Emit.to : Live(c) /\ Emit.room \in Joined(c)]_vars

\* ---- whose socket sent the event ---------------------------------------------------
\* the reactions a react of user u with emoji e leaves, from the stored reactions
ExpectedMerge(reactions, u, e) ==
  IF \E k \in DOMAIN reactions : reactions[k].userId = u /\ reactions[k].emoji = e
    THEN OthersOf(reactions, u)
    ELSE Append(OthersOf(reactions, u), [userId |-> u, emoji |-> e])

C31_NoAbsentReader ==
  /\ \A m \in DOMAIN store : \A k \in DOMAIN store[m].readBy : store[m].readBy[k] # Absent
  /\ \A i \in DOMAIN tasks :
       (tasks[i].kind \in Receipts /\ tasks[i].userId = Absent) => ~Broadcast(i)

====
